---------------------------- MODULE Spec2Model ----------------------------
(***************************************************************************)
(* Model of the TeachMover serial driver (src/teachmover.py).              *)
(*                                                                         *)
(* The driver is single-threaded: every public method runs to completion   *)
(* before the next is called.  The robot is a concurrent environment: it   *)
(* answers a command frame with a reply text whose bytes reach the         *)
(* transport's receive buffer while the driver waits, sleeps and drains.   *)
(*                                                                         *)
(* Texts are sequences of one-character strings.  A command frame is kept  *)
(* as its keyword and its integer arguments: the f-strings of the source   *)
(* print each argument in decimal, in this order.                          *)
(***************************************************************************)
EXTENDS Integers, Sequences, FiniteSets, TLC

VARIABLES
    exists,     \* a TeachMover object has been constructed
    con,        \* self.con: "unset" or "open"
    motors,     \* the motor records self.motor1 .. self.motor5 that are set
    pc,         \* position of the driver: idle, write, wait, sleep, cont
    op,         \* the public method being run (or last run)
    args,       \* its arguments
    stage,      \* number of __sendCmd calls the method has completed
    cmd,        \* the frame the current __sendCmd is given
    tx,         \* frames written to the transport by the current method
    got,        \* lists returned by the __sendCmd calls of the current method
    raw,        \* text drained by the last __sendCmd
    expect,     \* reply text the robot produced for the last frame written
    rx,         \* transport receive buffer (in_waiting = Len(rx))
    dev,        \* bytes of replies the robot has produced but not yet delivered
    fmt,        \* the robot's reply format: separator and terminator
    ret,        \* value returned by the method, as a list of integers
    retKind,    \* none, int, list, key, mm
    err         \* exception that ended the method, or "none"

vars == <<exists, con, motors, pc, op, args, stage, cmd, tx, got, raw, expect,
          rx, dev, fmt, ret, retKind, err>>

---------------------------------------------------------------------------
(* Bounds of the model *)

\* bytes of one reply that may arrive after its first burst
MaxLag == 2

---------------------------------------------------------------------------
(* Text *)

CR == "\r"
Digits == {"0", "1", "2", "3", "4", "5", "6", "7", "8", "9"}
DigitVal == [c \in Digits |->
    CASE c = "0" -> 0 [] c = "1" -> 1 [] c = "2" -> 2 [] c = "3" -> 3
      [] c = "4" -> 4 [] c = "5" -> 5 [] c = "6" -> 6 [] c = "7" -> 7
      [] c = "8" -> 8 [] c = "9" -> 9]
DigitChar == [d \in 0..9 |-> CHOOSE c \in Digits : DigitVal[c] = d]

\* str.replace(old, new) for one-character old and new
Replace(text, old, new) ==
    [i \in 1..Len(text) |-> IF text[i] = old THEN new ELSE text[i]]

\* str.split(","): the tokens between commas, empty tokens kept
RECURSIVE SplitComma(_)
SplitComma(text) ==
    IF text = <<>> THEN << <<>> >>
    ELSE LET rest == SplitComma(SubSeq(text, 1, Len(text) - 1))
             c == text[Len(text)]
             n == Len(rest)
         IN IF c = "," THEN Append(rest, <<>>)
            ELSE [rest EXCEPT ![n] = Append(rest[n], c)]

\* tmp[:-1]
DropLast(s) == IF Len(s) = 0 THEN s ELSE SubSeq(s, 1, Len(s) - 1)

\* int(tok) succeeds on an optional sign followed by one or more digits
IsIntToken(tok) ==
    LET body == IF Len(tok) > 0 /\ tok[1] = "-" THEN Tail(tok) ELSE tok
    IN Len(body) > 0 /\ \A i \in 1..Len(body) : body[i] \in Digits

RECURSIVE DigitsValue(_)
DigitsValue(ds) ==
    IF ds = <<>> THEN 0
    ELSE 10 * DigitsValue(SubSeq(ds, 1, Len(ds) - 1)) + DigitVal[ds[Len(ds)]]

PyInt(tok) == IF tok[1] = "-" THEN 0 - DigitsValue(Tail(tok)) ELSE DigitsValue(tok)

\* lines 106-109 of __sendCmd: the tokens handed to int()
Tokens(text) == DropLast(SplitComma(Replace(Replace(text, " ", ","), CR, ",")))

\* lines 113-114 raise ValueError at the first token int() rejects
ParseFails(text) == \E i \in 1..Len(Tokens(text)) : ~IsIntToken(Tokens(text)[i])

\* lines 111-116: the list __sendCmd returns
ParseReply(text) == [i \in 1..Len(Tokens(text)) |-> PyInt(Tokens(text)[i])]

\* the [1:-1] slice of readPosition
SliceInner(s) == IF Len(s) <= 2 THEN <<>> ELSE SubSeq(s, 2, Len(s) - 1)

\* the [1:] slice of dumpRAM
SliceTail(s) == IF Len(s) = 0 THEN <<>> ELSE Tail(s)

---------------------------------------------------------------------------
(* The robot: replies are integers in decimal, separated and terminated    *)
(* as the wire protocol says.  The source fixes neither the separator nor  *)
(* the values; both are drawn from small sets.                             *)

RECURSIVE NatText(_)
NatText(n) == IF n < 10 THEN <<DigitChar[n]>>
              ELSE Append(NatText(n \div 10), DigitChar[n % 10])

IntText(n) == IF n < 0 THEN <<"-">> \o NatText(0 - n) ELSE NatText(n)

RECURSIVE Join(_, _)
Join(vals, sep) ==
    IF Len(vals) = 1 THEN IntText(vals[1])
    ELSE Join(SubSeq(vals, 1, Len(vals) - 1), sep) \o sep \o IntText(vals[Len(vals)])

\* a reply frame: the values, separated by sep, ended by term
ReplyText(vals, f) == Join(vals, f.sep) \o f.term

Seps == { <<",">>, <<" ">>, <<",", " ">> }
Terms == { <<CR>>, <<",", CR>> }
Formats == [sep : Seps, term : Terms]

\* element 7 of an @READ reply: key code * 256 + input byte
PackedVals == {5, 261, 3589, 3840, -1}

StatusVals == { <<0>>, <<1>> }
ReadVals == { <<0, 1, -2, 3, 4, -5, 6, v>> : v \in PackedVals }
            \cup { <<0, 1, -2, 3, 4, -5, 6>>, <<0, 1, 2, 3, 4, 5, 6, 7, 8>>, <<0, 9>> }
DumpVals == { <<1, 2, 3>>, <<0>> }

DeviceVals(kw) == CASE kw = "@READ" -> ReadVals
                    [] kw = "@QDUMP" -> DumpVals
                    [] OTHER -> StatusVals

---------------------------------------------------------------------------
(* Construction *)

AllMotors == {"motor1", "motor2", "motor3", "motor4", "motor5"}

\* steps_deg of motor1..motor5, in hundredths
StepsDeg100 == <<1964, 1964, 1155, 427, 427>>

Init ==
    /\ exists = FALSE
    /\ con = "unset"
    /\ motors = {}
    /\ pc = "idle"
    /\ op = "none"
    /\ args = <<>>
    /\ stage = 0
    /\ cmd = [kw |-> "", a |-> <<>>]
    /\ tx = <<>>
    /\ got = <<>>
    /\ raw = <<>>
    /\ expect = <<>>
    /\ rx = <<>>
    /\ dev = <<>>
    /\ fmt \in Formats
    /\ ret = <<>>
    /\ retKind = "none"
    /\ err = "none"

\* __init__: serial.Serial either opens the port or raises; the except
\* clause prints the exception and the constructor returns normally
Construct ==
    /\ ~exists
    /\ \E opened \in BOOLEAN :
        /\ con' = IF opened THEN "open" ELSE "unset"
        /\ motors' = IF opened THEN AllMotors ELSE {}
    /\ exists' = TRUE
    /\ UNCHANGED <<pc, op, args, stage, cmd, tx, got, raw, expect, rx, dev, fmt,
                   ret, retKind, err>>

---------------------------------------------------------------------------
(* Method entry and exit *)

Frame(kw, a) == [kw |-> kw, a |-> a]

NoFrame == [kw |-> "", a |-> <<>>]

\* a public method is entered
Enter(name, a) ==
    /\ pc = "idle"
    /\ exists
    /\ op' = name
    /\ args' = a
    /\ stage' = 0
    /\ tx' = <<>>
    /\ got' = <<>>
    /\ raw' = <<>>
    /\ expect' = <<>>
    /\ UNCHANGED <<exists, con, motors, rx, dev, fmt>>

\* ... and reaches its first __sendCmd
Begin(name, a, frame) ==
    /\ Enter(name, a)
    /\ cmd' = frame
    /\ ret' = <<>>
    /\ retKind' = "none"
    /\ err' = "none"
    /\ pc' = "write"

\* an exception leaves the method; nothing in the class catches it
Raise(e) ==
    /\ err' = e
    /\ ret' = <<>>
    /\ retKind' = "none"
    /\ pc' = "idle"

Return(kind, v) ==
    /\ ret' = v
    /\ retKind' = kind
    /\ err' = "none"
    /\ pc' = "idle"

\* the next __sendCmd of the running method
SendNext(frame) ==
    /\ cmd' = frame
    /\ pc' = "write"
    /\ UNCHANGED <<ret, retKind, err>>

LastReply == got[Len(got)]

---------------------------------------------------------------------------
(* __sendCmd *)

\* lines 93-95: con.write(cmd); the robot answers the frame (or stays
\* silent); bytes it had not yet delivered precede the new reply
SendWrite ==
    /\ pc = "write"
    /\ IF con = "unset"
       THEN /\ Raise("AttributeError")
            /\ UNCHANGED <<tx, rx, dev, expect>>
       ELSE /\ tx' = Append(tx, cmd)
            /\ \E r \in {ReplyText(v, fmt) : v \in DeviceVals(cmd.kw)} \cup {<<>>} :
               \E k \in 0..MaxLag :
                 /\ k <= Len(r)
                 /\ rx' = rx \o dev \o SubSeq(r, 1, Len(r) - k)
                 /\ dev' = SubSeq(r, Len(r) - k + 1, Len(r))
                 /\ expect' = r
            /\ pc' = "wait"
            /\ UNCHANGED <<ret, retKind, err>>
    /\ UNCHANGED <<exists, con, motors, op, args, stage, cmd, got, raw, fmt>>

\* lines 98-99: in_waiting == 0, the loop goes round
SpinWait ==
    /\ pc = "wait"
    /\ Len(rx) = 0
    /\ UNCHANGED vars

\* line 98 sees a byte, line 100 starts the settle sleep
WaitDone ==
    /\ pc = "wait"
    /\ Len(rx) # 0
    /\ pc' = "sleep"
    /\ UNCHANGED <<exists, con, motors, op, args, stage, cmd, tx, got, raw, expect,
                   rx, dev, fmt, ret, retKind, err>>

\* lines 102-116: the sleep is over; in_waiting bytes are read and parsed
Drain ==
    /\ pc = "sleep"
    /\ raw' = rx
    /\ rx' = <<>>
    /\ IF ParseFails(rx)
       THEN /\ Raise("ValueError")
            /\ UNCHANGED <<got, stage>>
       ELSE /\ got' = Append(got, ParseReply(rx))
            /\ stage' = stage + 1
            /\ pc' = "cont"
            /\ UNCHANGED <<ret, retKind, err>>
    /\ UNCHANGED <<exists, con, motors, op, args, cmd, tx, expect, dev, fmt>>

\* the robot's next byte reaches the receive buffer
DeviceDeliver ==
    /\ dev # <<>>
    /\ rx' = Append(rx, Head(dev))
    /\ dev' = Tail(dev)
    /\ UNCHANGED <<exists, con, motors, pc, op, args, stage, cmd, tx, got, raw,
                   expect, fmt, ret, retKind, err>>

\* what a method that only continues or returns leaves alone
Kept == <<exists, con, motors, op, args, stage, tx, got, raw, expect, rx, dev, fmt>>

\* return self.__sendCmd(...)[0]
ReturnStatus ==
    IF Len(LastReply) = 0 THEN Raise("IndexError")
    ELSE Return("int", <<LastReply[1]>>)

---------------------------------------------------------------------------
(* Arguments the methods are called with *)

StepVals == {-2, 0, 3}
ElbowVals == {0, 4}
OutputVals == {-1, 1}
Degrees == {-2, 3}
Targets == { <<10, 20, -30, 4, 5>>, <<0, -7, 0, 2, -2>> }
\* program files: a line is a program line (its number) or blank (0)
Files == { <<1>>, <<0, 1, 0, 2>>, <<0>> }

---------------------------------------------------------------------------
(* Public methods *)

setZero ==
    /\ pc = "idle"
    /\ Begin("setZero", <<>>, Frame("@RESET", <<>>))

setZeroRet ==
    /\ pc = "cont" /\ op = "setZero"
    /\ ReturnStatus
    /\ UNCHANGED <<cmd>> /\ UNCHANGED Kept

\* the wrist slots exchanged
MoveStepsFrame_Swapped(speed, base, shoulder, elbow, pitch, roll, gripper, output) ==
    [kw |-> "@STEP",
     a |-> <<speed, base, shoulder, elbow, pitch + roll, pitch - roll, gripper + elbow>>
           \o (IF output = -1 THEN <<>> ELSE <<output>>)]

\* the f-strings of moveSteps: the wrist motors get pitch - roll and
\* pitch + roll, the gripper motor gets gripper + elbow
MoveStepsFrame(speed, base, shoulder, elbow, pitch, roll, gripper, output) ==
    Frame("@STEP",
          <<speed, base, shoulder, elbow, pitch - roll, pitch + roll, gripper + elbow>>
          \o (IF output = -1 THEN <<>> ELSE <<output>>))

moveSteps ==
    /\ pc = "idle"
    /\ \E elbow \in ElbowVals, pitch \in StepVals, roll \in StepVals,
          output \in OutputVals :
        Begin("moveSteps", <<220, 7, 0, elbow, pitch, roll, 1, output>>,
              MoveStepsFrame(220, 7, 0, elbow, pitch, roll, 1, output))

moveStepsRet ==
    /\ pc = "cont" /\ op = "moveSteps"
    /\ ReturnStatus
    /\ UNCHANGED <<cmd>> /\ UNCHANGED Kept

\* int(x): truncation toward zero of n / d, d > 0
Trunc(n, d) == IF n >= 0 THEN n \div d ELSE 0 - ((0 - n) \div d)

\* int(deg * steps_deg) of motor m, for whole degrees whose product is not
\* within rounding of an integer
AngleSteps(deg, m) == Trunc(deg * StepsDeg100[m], 100)

moveAngle ==
    /\ pc = "idle"
    /\ \E bd \in Degrees, pd \in Degrees, rd \in Degrees :
        IF motors # AllMotors
        THEN /\ Enter("moveAngle", <<0, bd, bd, bd, pd, rd>>)
             /\ Raise("AttributeError")
             /\ cmd' = NoFrame
        ELSE Begin("moveAngle", <<0, bd, bd, bd, pd, rd>>,
                   MoveStepsFrame(0, AngleSteps(bd, 1), AngleSteps(bd, 2),
                                  AngleSteps(bd, 3), AngleSteps(pd, 4),
                                  AngleSteps(rd, 5), 0, -1))

moveAngleRet ==
    /\ pc = "cont" /\ op = "moveAngle"
    /\ ReturnStatus
    /\ UNCHANGED <<cmd>> /\ UNCHANGED Kept

\* the slice [1:] in place of [1:-1]
PositionOf_Tail(reply) == SliceTail(reply)

\* what readPosition returns for an @READ reply
PositionOf(reply) == SliceInner(reply)

readPosition ==
    /\ pc = "idle"
    /\ Begin("readPosition", <<>>, Frame("@READ", <<>>))

readPositionRet ==
    /\ pc = "cont" /\ op = "readPosition"
    /\ Return("list", PositionOf(LastReply))
    /\ UNCHANGED <<cmd>> /\ UNCHANGED Kept

\* the modulus one short of a byte
InputsOf_Mod255(v) == v % 255

\* temp[7] % 256
InputsOf(v) == v % 256

readInputs ==
    /\ pc = "idle"
    /\ Begin("readInputs", <<>>, Frame("@READ", <<>>))

readInputsRet ==
    /\ pc = "cont" /\ op = "readInputs"
    /\ IF Len(LastReply) < 8 THEN Raise("IndexError")
       ELSE Return("int", <<InputsOf(LastReply[8])>>)
    /\ UNCHANGED <<cmd>> /\ UNCHANGED Kept

\* keymap of lastKey: the name of code c is KeyNames[c + 1]
KeyNames == <<"None", "Train", "Pause", "Grip", "Out", "Free", "Move", "Stop",
              "Step", "Point", "Jump", "Clear", "Zero", "Speed", "Run">>

\* (temp[7] - subt) / 256: the difference is a multiple of 256
KeyCodeOf(v) == (v - (v % 256)) \div 256

\* keymap[lastKey] raises KeyError outside 0..14
KeyKnown(code) == code \in 0..14

lastKey ==
    /\ pc = "idle"
    /\ Begin("lastKey", <<>>, Frame("@READ", <<>>))

lastKeyRet ==
    /\ pc = "cont" /\ op = "lastKey"
    /\ IF Len(LastReply) < 8 THEN Raise("IndexError")
       ELSE IF ~KeyKnown(KeyCodeOf(LastReply[8])) THEN Raise("KeyError")
       ELSE Return("key", <<KeyNames[KeyCodeOf(LastReply[8]) + 1]>>)
    /\ UNCHANGED <<cmd>> /\ UNCHANGED Kept

closeGripper ==
    /\ pc = "idle"
    /\ Begin("closeGripper", <<>>, Frame("@CLOSE", <<>>))

closeGripperRet ==
    /\ pc = "cont" /\ op = "closeGripper"
    /\ ReturnStatus
    /\ UNCHANGED <<cmd>> /\ UNCHANGED Kept

gripObject ==
    /\ pc = "idle"
    /\ Begin("gripObject", <<>>, Frame("@CLOSE", <<>>))

\* closeGripper() has returned or raised; then the fixed @STEP
gripObjectStep ==
    /\ pc = "cont" /\ op = "gripObject" /\ stage = 1
    /\ IF Len(LastReply) = 0
       THEN Raise("IndexError") /\ UNCHANGED cmd
       ELSE SendNext(Frame("@STEP", <<220, 0, 0, 0, 0, 0, -32>>))
    /\ UNCHANGED Kept

gripObjectRet ==
    /\ pc = "cont" /\ op = "gripObject" /\ stage = 2
    /\ Return("list", LastReply)
    /\ UNCHANGED <<cmd>> /\ UNCHANGED Kept

releaseObject ==
    /\ pc = "idle"
    /\ Begin("releaseObject", <<>>, Frame("@STEP", <<220, 0, 0, 0, 0, 0, 500>>))

releaseObjectRet ==
    /\ pc = "cont" /\ op = "releaseObject"
    /\ Return("list", LastReply)
    /\ UNCHANGED <<cmd>> /\ UNCHANGED Kept

\* the @STEP of returnToZero for currentPos = readPosition()
ReturnToZeroFrame(currentPos) ==
    Frame("@STEP", <<220, 0 - currentPos[1], 0 - currentPos[2], 0 - currentPos[3],
                     0 - currentPos[4], 0 - currentPos[5], 0 - currentPos[6]>>)

returnToZero ==
    /\ pc = "idle"
    /\ Begin("returnToZero", <<>>, Frame("@READ", <<>>))

\* lines 166-175: currentPos[5] raises IndexError on a short list
returnToZeroStep ==
    /\ pc = "cont" /\ op = "returnToZero" /\ stage = 1
    /\ IF Len(PositionOf(got[1])) < 6
       THEN Raise("IndexError") /\ UNCHANGED cmd
       ELSE SendNext(ReturnToZeroFrame(PositionOf(got[1])))
    /\ UNCHANGED Kept

\* line 177: self.setZero()
returnToZeroReset ==
    /\ pc = "cont" /\ op = "returnToZero" /\ stage = 2
    /\ SendNext(Frame("@RESET", <<>>))
    /\ UNCHANGED Kept

\* the reply of the last command returned in place of the move's
ReturnToZeroValue_Last(replies) == replies[3]

\* the value returnToZero returns once setZero() has returned
ReturnToZeroValue(replies) == replies[2]

\* setZero() takes [0] of its reply; line 178 returns ret
returnToZeroRet ==
    /\ pc = "cont" /\ op = "returnToZero" /\ stage = 3
    /\ IF Len(LastReply) = 0 THEN Raise("IndexError")
       ELSE Return("list", ReturnToZeroValue(got))
    /\ UNCHANGED <<cmd>> /\ UNCHANGED Kept

measureObject ==
    /\ pc = "idle"
    /\ Begin("measureObject", <<>>, Frame("@CLOSE", <<>>))

measureObjectRead ==
    /\ pc = "cont" /\ op = "measureObject" /\ stage = 1
    /\ IF Len(LastReply) = 0
       THEN Raise("IndexError") /\ UNCHANGED cmd
       ELSE SendNext(Frame("@READ", <<>>))
    /\ UNCHANGED Kept

\* readPosition()[5] / 14.6 - OFFSET: the register is returned, in steps
\* of 1/14.6 mm
measureObjectRet ==
    /\ pc = "cont" /\ op = "measureObject" /\ stage = 2
    /\ IF Len(PositionOf(LastReply)) < 6 THEN Raise("IndexError")
       ELSE Return("mm", <<PositionOf(LastReply)[6]>>)
    /\ UNCHANGED <<cmd>> /\ UNCHANGED Kept

dumpRAM ==
    /\ pc = "idle"
    /\ Begin("dumpRAM", <<>>, Frame("@QDUMP", <<>>))

dumpRAMRet ==
    /\ pc = "cont" /\ op = "dumpRAM"
    /\ Return("list", SliceTail(LastReply))
    /\ UNCHANGED <<cmd>> /\ UNCHANGED Kept

\* the lines of the file from the first that is not blank
RECURSIVE SkipBlank(_)
SkipBlank(lines) ==
    IF lines = <<>> \/ Head(lines) # 0 THEN lines ELSE SkipBlank(Tail(lines))

\* loadProgram up to its first @QWRITE, or to its end when no line is left
loadProgram ==
    /\ pc = "idle"
    /\ \E f \in Files :
        IF SkipBlank(f) = <<>>
        THEN /\ Enter("loadProgram", <<>>)
             /\ Return("none", <<>>)
             /\ cmd' = NoFrame
        ELSE Begin("loadProgram", Tail(SkipBlank(f)),
                   Frame("@QWRITE", <<Head(SkipBlank(f))>>))

\* the loop of loadProgram after a @QWRITE: the next line, or the end
loadProgramNext ==
    /\ pc = "cont" /\ op = "loadProgram"
    /\ IF SkipBlank(args) = <<>>
       THEN /\ Return("none", <<>>)
            /\ UNCHANGED <<cmd, args>>
       ELSE /\ SendNext(Frame("@QWRITE", <<Head(SkipBlank(args))>>))
            /\ args' = Tail(SkipBlank(args))
    /\ UNCHANGED <<exists, con, motors, op, stage, tx, got, raw, expect, rx, dev, fmt>>

\* moveToCoordinates up to readPosition(): the pose is given by the joint
\* step counts int(T1 * 1125) .. int(T5 * 241) it solves to
moveToCoordinates ==
    /\ pc = "idle"
    /\ \E t \in Targets : Begin("moveToCoordinates", t, Frame("@READ", <<>>))

\* line 250: readPosition() returns a list, which has no attribute data
moveToCoordinatesRead ==
    /\ pc = "cont" /\ op = "moveToCoordinates"
    /\ Raise("AttributeError")
    /\ UNCHANGED <<cmd>> /\ UNCHANGED Kept

Next ==
    \/ Construct
    \/ SendWrite \/ SpinWait \/ WaitDone \/ Drain \/ DeviceDeliver
    \/ setZero \/ setZeroRet
    \/ moveSteps \/ moveStepsRet
    \/ moveAngle \/ moveAngleRet
    \/ readPosition \/ readPositionRet
    \/ readInputs \/ readInputsRet
    \/ lastKey \/ lastKeyRet
    \/ closeGripper \/ closeGripperRet
    \/ gripObject \/ gripObjectStep \/ gripObjectRet
    \/ releaseObject \/ releaseObjectRet
    \/ returnToZero \/ returnToZeroStep \/ returnToZeroReset \/ returnToZeroRet
    \/ measureObject \/ measureObjectRead \/ measureObjectRet
    \/ dumpRAM \/ dumpRAMRet
    \/ loadProgram \/ loadProgramNext
    \/ moveToCoordinates \/ moveToCoordinatesRead

Spec == Init /\ [][Next]_vars

\* __sendCmd alone, under the methods that send one frame and return
SendOnlyNext ==
    \/ Construct
    \/ SendWrite \/ SpinWait \/ WaitDone \/ Drain \/ DeviceDeliver
    \/ setZero \/ setZeroRet
    \/ closeGripper \/ closeGripperRet
    \/ releaseObject \/ releaseObjectRet

\* the steps of a called method
SendOnlyStep ==
    \/ SendWrite \/ WaitDone \/ Drain
    \/ setZeroRet \/ closeGripperRet \/ releaseObjectRet

\* a called method keeps running (the interpreter does not stop) and a byte
\* the robot has sent arrives; whether the robot answers at all is left open
FairSpec ==
    Init /\ [][SendOnlyNext]_vars /\ WF_vars(SendOnlyStep) /\ WF_vars(DeviceDeliver)

---------------------------------------------------------------------------
(* Claims *)

ReadFrame == Frame("@READ", <<>>)
ResetFrame == Frame("@RESET", <<>>)
ReplyVals == StatusVals \cup ReadVals \cup DumpVals

C2_SendTerminates ==
    (pc \in {"write", "wait", "sleep"}) ~> (pc \in {"cont", "idle"})

\* C3: a send that drains a reply text of integers separated by ",", " " or
\* ", " and ended by CR or ",CR" returns exactly those integers.
C3_ParseYieldsIntegers ==
    \A f \in Formats, v \in ReplyVals :
        raw = ReplyText(v, f) =>
            /\ err # "ValueError"
            /\ (pc = "cont" => LastReply = v)

\* C4: the @STEP frame of moveSteps carries a = pitch - roll and
\* b = pitch + roll in the wrist slots, so (a+b)/2 = pitch, (b-a)/2 = roll.
C4_WristCoupling ==
    (op = "moveSteps" /\ Len(tx) >= 1) =>
        LET a == tx[1].a[5]
            b == tx[1].a[6]
            pitch == args[5]
            roll == args[6]
        IN /\ tx[1].kw = "@STEP"
           /\ a = pitch - roll
           /\ b = pitch + roll
           /\ (a + b) \div 2 = pitch /\ (a + b) % 2 = 0
           /\ (b - a) \div 2 = roll /\ (b - a) % 2 = 0

C4_Witness ==
    /\ op = "moveSteps" /\ Len(tx) = 1
    /\ args[5] = 3 /\ args[6] = -2

\* C5: with v element 7 of the @READ reply, readInputs returns v mod 256;
\* lastKey returns the name at index (v - v mod 256)/256 of the key table
\* when that index is in 0..14 and ends in an error, returning nothing,
\* otherwise; v = 3589 gives inputs 5 and key "Run".
C5_PackedByte ==
    (pc = "idle" /\ op \in {"readInputs", "lastKey"} /\ Len(got) = 1
        /\ Len(got[1]) >= 8) =>
        LET v == got[1][8]
            low == v % 256
            index == (v - low) \div 256
        IN /\ op = "readInputs" =>
                /\ err = "none" /\ retKind = "int" /\ ret = <<low>>
                /\ (v = 3589 => ret = <<5>>)
           /\ (op = "lastKey" /\ index \in 0..14) =>
                /\ err = "none" /\ retKind = "key" /\ ret = <<KeyNames[index + 1]>>
                /\ (v = 3589 => ret = <<"Run">>)
           /\ (op = "lastKey" /\ index \notin 0..14) =>
                /\ err # "none" /\ retKind = "none"

C5_Witness ==
    /\ pc = "idle" /\ op = "lastKey" /\ Len(got) = 1 /\ Len(got[1]) >= 8
    /\ got[1][8] = 3589 /\ retKind = "key"

\* C6 as stated: readPosition returns exactly five values, elements 1..5 of
\* the reply, whatever the length of the reply (the reply received whole).
C6_FiveRegisters ==
    (pc = "idle" /\ op = "readPosition" /\ Len(got) = 1 /\ raw = expect
        /\ Len(got[1]) >= 6) =>
        /\ err = "none"
        /\ Len(ret) = 5
        /\ \A i \in 1..5 : ret[i] = got[1][i + 1]

\* C6 amended: readPosition returns every element of the reply but the first
\* and the last, in order: n - 2 values for a reply of n >= 2 elements, so
\* six values (elements 1..6) for the 8-element @READ reply.
C6_AllButFirstAndLast ==
    (pc = "idle" /\ op = "readPosition" /\ Len(got) = 1) =>
        LET n == Len(got[1])
        IN /\ err = "none" /\ retKind = "list"
           /\ Len(ret) = (IF n >= 2 THEN n - 2 ELSE 0)
           /\ \A i \in 1..Len(ret) : ret[i] = got[1][i + 1]
           /\ (n = 8 => Len(ret) = 6)

C6_Witness ==
    /\ pc = "idle" /\ op = "readPosition" /\ Len(got) = 1
    /\ Len(got[1]) = 8 /\ Len(ret) = 6

\* C7: returnToZero writes @READ, then (the @READ reply read) one @STEP at
\* speed 220 whose six step arguments negate registers 1..6 of that reply,
\* then (the @STEP reply read) @RESET; it returns the reply to the @STEP.
C7_ReturnToZeroSequence ==
    op = "returnToZero" =>
        /\ Len(tx) <= 3
        /\ Len(tx) \in {Len(got), Len(got) + 1}
        /\ (pc = "write" => Len(tx) = Len(got))
        /\ (Len(tx) >= 1 => tx[1] = ReadFrame)
        /\ (Len(tx) >= 2 =>
                /\ tx[2].kw = "@STEP" /\ Len(tx[2].a) = 7 /\ tx[2].a[1] = 220
                /\ \A j \in 1..6 : tx[2].a[j + 1] = 0 - got[1][j + 1])
        /\ (Len(tx) = 3 => tx[3] = ResetFrame)
        /\ ((pc = "idle" /\ retKind # "none") =>
                /\ Len(tx) = 3 /\ Len(got) = 3
                /\ ret = got[2])

C7_Witness ==
    /\ pc = "idle" /\ op = "returnToZero" /\ retKind = "list"
    /\ Len(tx) = 3 /\ got[2] # got[3]
    /\ tx[2].a = <<220, -1, 2, -3, -4, 5, -6>>

\* C8: moveToCoordinates, given the @READ reply with the current position
\* (received whole), completes and sends one @STEP whose five joint values are the target step
\* counts minus the position registers, the gripper slot equal to the elbow
\* value.
C8_RelativeStep ==
    (pc = "idle" /\ op = "moveToCoordinates" /\ Len(got) >= 1 /\ raw = expect
        /\ Len(got[1]) >= 7) =>
        /\ err = "none"
        /\ Len(tx) = 2
        /\ tx[2].kw = "@STEP"
        /\ \A j \in 1..5 : tx[2].a[j + 1] = args[j] - got[1][j + 1]
        /\ tx[2].a[7] = tx[2].a[4]

\* C9: every object that exists after construction has its transport handle
\* and its five motor records.
C9_FullyInitialized ==
    exists => (con = "open" /\ motors = AllMotors)

\* C10: the text a send drains is exactly the reply frame the robot produced
\* for that command, neither cut short nor preceded by earlier bytes.
C10_WholeFrame ==
    ((pc = "cont" \/ (pc = "idle" /\ err = "ValueError")) /\ expect # <<>>) =>
        raw = expect

=============================================================================
